---- MODULE Spec2Model ----
(***************************************************************************)
(* The asynchronous video job client of the repository:                   *)
(*   - MinimaxVideoService (src/src/services/minimaxVideo.ts):            *)
(*     createVideoTask, checkTaskStatus, waitForVideoCompletion,           *)
(*     generateVideo, downloadVideo, generateAndDownloadVideo;             *)
(*   - the download-by-task-id command (src/download-video.js):            *)
(*     getVideoStatus, downloadVideo, downloadVideoByTaskId;               *)
(*   - MinimaxVideoTest.createVideoTask (src/unnamed/part_013).            *)
(* The provider is the environment: every HTTP response is chosen from a   *)
(* small set of response shapes, and every request takes either no         *)
(* measurable time or the whole request timeout.                           *)
(***************************************************************************)
EXTENDS Integers, Sequences, FiniteSets, TLC

VARIABLES
    entry,        \* operation the caller invoked
    pc,           \* position of the one logical flow
    onProgress,   \* TRUE when the caller supplied a progress callback
    maxWaitTime,  \* waitForVideoCompletion's maxWaitTime (ms)
    now,          \* Date.now() (ms since the caller's call)
    startTime,    \* waitForVideoCompletion's startTime
    taskId,       \* task id held by the flow
    resp,         \* body / transport outcome of the latest status query
    status,       \* VideoGenerationTask (service) or status object (command)
    thrown,       \* error the operation rejected with
    result,       \* task record waitForVideoCompletion resolved with
    retval,       \* value the invoked operation resolved with
    outcome,      \* "none" | "returned" | "thrown"
    queries,      \* status queries started
    sleeps,       \* poll sleeps completed
    progress,     \* onProgress invocations
    downloads,    \* downloadVideo invocations
    files,        \* files written
    attempts,     \* download-video.js: attempts
    waitFlag,     \* download-video.js: waitForCompletion
    apiKey,       \* download-video.js: TRUE when the credential is set
    outputFilename, \* download-video.js: --output value
    script,       \* history: shape of the provider's answers so far
    nProcessing,  \* history: the N of the script (0 once it is "off")
    cause,        \* history: why the poll loop ended
    created,      \* createVideoTask's response, until the poll loop starts
    lastProgress, \* record the latest onProgress call received
    cancelRequested, \* TRUE once the caller wants the poll loop aborted
    exitCode,     \* exit code of the command-line process
    dirExists,    \* fs.existsSync of the output directory
    noUrlOnly,    \* history: every record so far was completed without a URL
    chat,         \* the chat application: sessions, storage, running send
    view,         \* the VideoGenerator component and its generations
    pair          \* two runs of waitForVideoCompletion fed the same answers

vars == <<entry, pc, onProgress, maxWaitTime, now, startTime, taskId, resp,
          status, thrown, result, retval, outcome, queries, sleeps, progress,
          downloads, files, attempts, waitFlag, apiKey, outputFilename,
          script, nProcessing, cause, created, lastProgress, cancelRequested,
          exitCode, pair, dirExists, noUrlOnly, chat, view>>

----------------------------------------------------------------------------
(* Bounds of the exploration *)

\* status queries one run of waitForVideoCompletion may start in the model
MaxPolls == 6
\* deadlines tried for a direct call: 0 .. MaxWaitIntervals poll intervals
MaxWaitIntervals == 5
\* size in bytes of a non-empty payload the download URL serves
PayloadBytes == 1164000

(* Program constants *)

PollInterval == 3000
DefaultMaxWaitTime == 300000
RequestTimeout == 30000
MaxAttemptsWait == 40
MaxAttemptsOnce == 1

----------------------------------------------------------------------------
(* JavaScript values *)

NoValue == "undefined"

\* JavaScript truthiness of an optional string
Truthy(v) == v \notin {NoValue, ""}

\* a || b
OrElse(a, b) == IF Truthy(a) THEN a ELSE b

\* status strings the provider is observed (or may be expected) to send
StatusStrings == {"Success", "SUCCESS", "Processing", "processing",
                  "Failed", "FAILED", "Queueing"}

ToLowerCaseIdentity(s) == s

\* String.prototype.toLowerCase on the status vocabulary
ToLowerCase(s) ==
    CASE s = "Success"    -> "success"
      [] s = "SUCCESS"    -> "success"
      [] s = "Processing" -> "processing"
      [] s = "processing" -> "processing"
      [] s = "Failed"     -> "failed"
      [] s = "FAILED"     -> "failed"
      [] s = "Queueing"   -> "queueing"
      [] OTHER            -> s

\* new Error(message)
JsError(m) == [kind |-> "Error", message |-> m]
NoError == [kind |-> "none", message |-> ""]

----------------------------------------------------------------------------
(* Provider responses *)

\* GET /query/video_generation: transport failure, or a body
StatusResponses ==
    {[transport |-> t, code |-> NoValue, status_msg |-> NoValue,
      status |-> NoValue, file_id |-> NoValue, error |-> NoValue] :
        t \in {"network", "timeout"}}
    \cup
    {[transport |-> "ok", code |-> c, status_msg |-> m,
      status |-> NoValue, file_id |-> NoValue, error |-> NoValue] :
        c \in {"2013", NoValue}, m \in {NoValue, "invalid params"}}
    \cup
    {[transport |-> "ok", code |-> "0", status_msg |-> "success",
      status |-> s, file_id |-> f, error |-> e] :
        s \in StatusStrings \cup {NoValue}, f \in {NoValue, "file1"},
        e \in {NoValue, "provider error"}}

NoResp == [transport |-> "none", code |-> NoValue, status_msg |-> NoValue,
           status |-> NoValue, file_id |-> NoValue, error |-> NoValue]

\* GET /files/retrieve: transport failure, or file?.download_url
FileResponses ==
    {[transport |-> "network", download_url |-> NoValue]}
    \cup
    {[transport |-> "ok", download_url |-> u] : u \in {NoValue, "", "url1"}}

\* message of the error axios rejects with
TransportMessage(t) ==
    IF t = "network" THEN "Network Error"
    ELSE IF t = "timeout" THEN "timeout of 30000ms exceeded"
    ELSE t

\* time one request takes
Durations == {0, RequestTimeout}

----------------------------------------------------------------------------
(* checkTaskStatus *)

NoTask == [task_id |-> NoValue, status |-> "none", file_id |-> NoValue,
           video_url |-> NoValue, error |-> NoValue]

NormalizeStatusCaseSensitive(s) ==
    IF s = "success" THEN "completed"
    ELSE IF s = "processing" THEN "processing"
    ELSE IF s = "failed" THEN "failed"
    ELSE "pending"

NormalizeStatusSwapped(s) ==
    IF s = NoValue THEN "pending"
    ELSE IF ToLowerCase(s) = "success" THEN "completed"
    ELSE IF ToLowerCase(s) = "processing" THEN "completed"
    ELSE IF ToLowerCase(s) = "failed" THEN "failed"
    ELSE "pending"

\* result.status?.toLowerCase() === ... ? ... : 'pending'
NormalizeStatus(s) ==
    IF s = NoValue THEN "pending"
    ELSE IF ToLowerCase(s) = "success" THEN "completed"
    ELSE IF ToLowerCase(s) = "processing" THEN "processing"
    ELSE IF ToLowerCase(s) = "failed" THEN "failed"
    ELSE "pending"

\* the record returned from the try block
TaskRecord(id, r, videoUrl) ==
    [task_id |-> id, status |-> NormalizeStatus(r.status),
     file_id |-> r.file_id, video_url |-> videoUrl, error |-> r.error]

\* the record returned from the catch block
CatchRecord(id, message) ==
    [task_id |-> id, status |-> "failed", file_id |-> NoValue,
     video_url |-> NoValue, error |-> message]

\* result.base_resp?.status_code !== 0
BadStatusCode(r) == r.code # "0"

\* videoUrl after the inner try/catch around the file lookup
VideoUrlOf(f) == IF f.transport = "ok" THEN f.download_url ELSE NoValue

----------------------------------------------------------------------------
(* waitForVideoCompletion *)

IsCompletedAnyUrl(s) == s.status = "completed"

\* status.status === 'completed' && status.video_url
IsCompleted(s) == s.status = "completed" /\ Truthy(s.video_url)

\* a record that says completed but carries no usable video_url
NoUrlCompleted(s) == s.status = "completed" /\ ~Truthy(s.video_url)

IsFailedOrNoUrl(s) == s.status = "failed" \/ NoUrlCompleted(s)

\* status.status === 'failed'
IsFailed(s) == s.status = "failed"

FailureErrorGeneric(s) == JsError("Video generation failed")

\* new Error(status.error || 'Video generation failed')
FailureError(s) == JsError(OrElse(s.error, "Video generation failed"))

\* new Error('Video generation timeout - exceeded maximum wait time')
TimeoutError ==
    JsError("Video generation timeout - exceeded maximum wait time")

WithinDeadlineInclusive == now - startTime <= maxWaitTime

\* Date.now() - startTime < maxWaitTime
WithinDeadline == now - startTime < maxWaitTime

\* no creation response held
NoCreate ==
    [transport |-> "none", task_id |-> NoValue, id |-> NoValue,
     code |-> NoValue, message |-> NoValue]

\* the process has not exited
NoExit == -1

\* no paired runs
NoPair == <<>>

\* activeSessionId === null, and an absent active_session_id item
NoSession == 0

\* the chat application on its first load, with an empty localStorage
FreshChat ==
    [sessions |-> <<>>, activeSessionId |-> NoSession,
     storedSessions |-> <<>>, storedActive |-> NoSession,
     nextId |-> 1, sends |-> 0, pc |-> "idle", closureActive |-> NoSession,
     fresh |-> NoSession, reply |-> "none"]

\* no input was ever given
NoInput == 0

\* the VideoGenerator page before any input
FreshView ==
    [input |-> NoInput, nextInput |-> 1, pendingDrop |-> FALSE,
     isGenerating |-> FALSE, error |-> FALSE, explanation |-> NoInput,
     slides |-> NoInput, inflight |-> {}]

----------------------------------------------------------------------------
Init ==
    /\ entry = "none"
    /\ pc = "idle"
    /\ onProgress = FALSE
    /\ maxWaitTime = 0
    /\ now = 0
    /\ startTime = 0
    /\ taskId = NoValue
    /\ resp = NoResp
    /\ status = NoTask
    /\ thrown = NoError
    /\ result = NoTask
    /\ retval = NoValue
    /\ outcome = "none"
    /\ queries = 0
    /\ sleeps = 0
    /\ progress = 0
    /\ downloads = 0
    /\ files = {}
    /\ attempts = 0
    /\ waitFlag = FALSE
    /\ apiKey = TRUE
    /\ outputFilename = NoValue
    /\ script = "proc"
    /\ nProcessing = 0
    /\ cause = "none"
    /\ created = NoCreate
    /\ lastProgress = NoTask
    /\ cancelRequested = FALSE
    /\ exitCode = NoExit
    /\ pair = NoPair
    /\ chat = FreshChat
    /\ view = FreshView
    /\ noUrlOnly = TRUE
    /\ dirExists = FALSE

\* the operation rejects
Throw(e, why) ==
    /\ pc' = "done"
    /\ outcome' = "thrown"
    /\ thrown' = e
    /\ cause' = why

\* deadlines of a direct call
MaxWaitInputs == {k * PollInterval : k \in 0..MaxWaitIntervals}

\* a caller calls waitForVideoCompletion(taskId, onProgress?, maxWaitTime)
CallWaitForVideoCompletion ==
    /\ pc = "idle"
    /\ \E m \in MaxWaitInputs, cb \in BOOLEAN :
        /\ maxWaitTime' = m
        /\ onProgress' = cb
    /\ entry' = "wait"
    /\ taskId' = "task1"
    /\ startTime' = now
    /\ pc' = "loop"
    /\ UNCHANGED <<cancelRequested, exitCode, created, lastProgress, pair,
                   retval, outputFilename, now, resp, status, thrown, result,
                   outcome, queries, sleeps, progress, downloads, files,
                   attempts, waitFlag, apiKey, script, nProcessing, cause,
                   dirExists, noUrlOnly, chat, view>>

\* the while condition; a true condition starts checkTaskStatus's request
LoopTest ==
    /\ pc = "loop"
    /\ created' = NoCreate
    /\ IF WithinDeadline
       THEN /\ queries < MaxPolls
            /\ queries' = queries + 1
            /\ pc' = "query"
            /\ UNCHANGED <<thrown, outcome, cause>>
       ELSE /\ Throw(TimeoutError, "timeout")
            /\ UNCHANGED queries
    /\ UNCHANGED <<cancelRequested, exitCode, lastProgress, pair, retval,
                   outputFilename, entry, onProgress, maxWaitTime, now,
                   startTime, taskId, resp, status, result, sleeps, progress,
                   downloads, files, attempts, waitFlag, apiKey, script,
                   nProcessing, dirExists, noUrlOnly, chat, view>>

\* history of the provider's answers: "proc" while every answer was
\* Processing, "succ" once Success answers with a resolvable file followed,
\* "off" for every other sequence of answers
NextScript(r, answered) ==
    IF r.transport = "ok" /\ ~BadStatusCode(r) /\ r.status # NoValue
    THEN IF ToLowerCase(r.status) = "processing" /\ script = "proc"
            THEN "proc"
         ELSE IF ToLowerCase(r.status) = "success" /\ answered
                 /\ script \in {"proc", "succ"}
            THEN "succ"
         ELSE "off"
    ELSE "off"

IsProcessingAnswer(r) ==
    /\ r.transport = "ok"
    /\ ~BadStatusCode(r)
    /\ r.status # NoValue
    /\ ToLowerCase(r.status) = "processing"

\* the status query settles
StatusResponse ==
    /\ pc = "query"
    /\ \E r \in StatusResponses, d \in Durations :
        /\ r.transport = "timeout" => d = RequestTimeout
        /\ now' = now + d
        /\ resp' = r
        /\ nProcessing' = IF script = "proc" /\ IsProcessingAnswer(r)
                          THEN nProcessing + 1
                          ELSE IF NextScript(r, TRUE) = "off" THEN 0
                          ELSE nProcessing
        /\ IF r.transport # "ok"
           THEN /\ status' = CatchRecord(taskId, TransportMessage(r.transport))
                /\ pc' = "respond"
                /\ script' = "off"
                /\ noUrlOnly' = FALSE
           ELSE IF BadStatusCode(r)
           THEN /\ status' = CatchRecord(taskId,
                                OrElse(r.status_msg, "Status check failed"))
                /\ pc' = "respond"
                /\ script' = "off"
                /\ noUrlOnly' = FALSE
           ELSE IF Truthy(r.file_id)
           THEN /\ pc' = "lookup"
                /\ UNCHANGED <<status, script, noUrlOnly>>
           ELSE /\ status' = TaskRecord(taskId, r, NoValue)
                /\ pc' = "respond"
                /\ script' = NextScript(r, FALSE)
                /\ noUrlOnly' =
                      (noUrlOnly /\ NoUrlCompleted(TaskRecord(taskId, r,
                                                              NoValue)))
    /\ UNCHANGED <<cancelRequested, exitCode, created, lastProgress, pair,
                   retval, outputFilename, entry, onProgress, maxWaitTime,
                   startTime, taskId, thrown, result, outcome, queries,
                   sleeps, progress, downloads, files, attempts, waitFlag,
                   apiKey, cause, dirExists, chat, view>>

\* the file lookup settles and checkTaskStatus returns
FileResponse ==
    /\ pc = "lookup"
    /\ \E f \in FileResponses, d \in Durations :
        /\ now' = now + d
        /\ status' = TaskRecord(taskId, resp, VideoUrlOf(f))
        /\ noUrlOnly' =
              (noUrlOnly /\ NoUrlCompleted(TaskRecord(taskId, resp,
                                                      VideoUrlOf(f))))
        /\ script' = NextScript(resp, Truthy(VideoUrlOf(f)))
        /\ nProcessing' =
              IF NextScript(resp, Truthy(VideoUrlOf(f))) = "off" THEN 0
              ELSE nProcessing
    /\ pc' = "respond"
    /\ UNCHANGED <<cancelRequested, exitCode, created, lastProgress, pair,
                   retval, outputFilename, entry, onProgress, maxWaitTime,
                   startTime, taskId, resp, thrown, result, outcome, queries,
                   sleeps, progress, downloads, files, attempts, waitFlag,
                   apiKey, cause, dirExists, chat, view>>

OnProgressCallNonTerminal ==
    IF onProgress /\ ~IsCompleted(status) /\ ~IsFailed(status)
    THEN progress' = progress + 1 /\ lastProgress' = status
    ELSE UNCHANGED <<progress, lastProgress>>

\* if (onProgress) { onProgress(status) }
OnProgressCall ==
    IF onProgress
    THEN progress' = progress + 1 /\ lastProgress' = status
    ELSE UNCHANGED <<progress, lastProgress>>

EndOfIterationBusy == "loop"

\* the end of the loop body: await new Promise(resolve =>
\* setTimeout(resolve, pollInterval)) before the while test runs again
EndOfIteration == "sleep"

\* the loop body after the await: onProgress, the two terminal tests, and
\* the start of the sleep
Evaluate ==
    /\ pc = "respond"
    /\ OnProgressCall
    /\ IF IsCompleted(status)
       THEN /\ result' = status
            /\ retval' = IF entry = "wait" THEN "task" ELSE retval
            /\ outcome' = IF entry = "wait" THEN "returned" ELSE outcome
            /\ pc' = IF entry = "wait" THEN "done" ELSE "generated"
            /\ cause' = "completed"
            /\ UNCHANGED thrown
       ELSE IF IsFailed(status)
       THEN /\ Throw(FailureError(status), "failed")
            /\ UNCHANGED <<result, retval>>
       ELSE /\ pc' = EndOfIteration
            /\ UNCHANGED <<thrown, result, retval, outcome, cause>>
    /\ UNCHANGED <<cancelRequested, exitCode, created, pair, outputFilename,
                   entry, onProgress, maxWaitTime, now, startTime, taskId,
                   resp, status, queries, sleeps, downloads, files, attempts,
                   waitFlag, apiKey, script, nProcessing, dirExists,
                   noUrlOnly, chat, view>>

\* setTimeout(resolve, pollInterval) fires
Sleep ==
    /\ pc = "sleep"
    /\ now' = now + PollInterval
    /\ sleeps' = sleeps + 1
    /\ resp' = NoResp
    /\ status' = NoTask
    /\ lastProgress' = NoTask
    /\ pc' = "loop"
    /\ UNCHANGED <<cancelRequested, exitCode, created, pair, retval,
                   outputFilename, entry, onProgress, maxWaitTime, startTime,
                   taskId, thrown, result, outcome, queries, progress,
                   downloads, files, attempts, waitFlag, apiKey, script,
                   nProcessing, cause, dirExists, noUrlOnly, chat, view>>

\* the caller wants the running poll loop aborted (its input changed, or the
\* user left); waitForVideoCompletion takes no cancellation signal
RequestCancel ==
    /\ entry \in {"wait", "workflow"}
    /\ pc \in {"loop", "query", "lookup", "respond", "sleep"}
    /\ ~cancelRequested
    /\ cancelRequested' = TRUE
    /\ UNCHANGED <<entry, pc, onProgress, maxWaitTime, now, startTime, taskId,
                   resp, status, thrown, result, retval, outcome, queries,
                   sleeps, progress, downloads, files, attempts, waitFlag,
                   apiKey, outputFilename, script, nProcessing, cause,
                   created, lastProgress, exitCode, pair, dirExists,
                   noUrlOnly, chat, view>>

----------------------------------------------------------------------------
(* createVideoTask *)

\* POST /video_generation: a body, an HTTP error status, or no response
CreateResponses ==
    {[transport |-> "ok", task_id |-> t, id |-> i, code |-> c,
      message |-> NoValue] :
        t \in {NoValue, "", "task1"}, i \in {NoValue, "", "task2"},
        c \in {"0", "1004", NoValue}}
    \cup
    {[transport |-> h, task_id |-> NoValue, id |-> NoValue, code |-> NoValue,
      message |-> m] :
        h \in {"404", "401", "403", "500", "network"},
        m \in {NoValue, "server message"}}

\* error.message of the error axios rejects with
AxiosMessage(r) ==
    IF r.transport = "network" THEN "Network Error"
    ELSE "Request failed with status code " \o r.transport

TaskIdFieldOnly(r) ==
    IF r.task_id # NoValue THEN r.task_id ELSE r.id

\* if (result.task_id) ... else if (result.id) ... : the id that is returned,
\* NoValue when the else branch throws
TaskIdOf(r) ==
    IF Truthy(r.task_id) THEN r.task_id
    ELSE IF Truthy(r.id) THEN r.id
    ELSE NoValue

\* MinimaxVideoService.createVideoTask: the try block and the catch block
CreateVideoTaskOutcome(r) ==
    IF r.transport = "ok"
    THEN IF TaskIdOf(r) # NoValue
         THEN [ok |-> TRUE, value |-> TaskIdOf(r), error |-> NoError]
         ELSE [ok |-> FALSE, value |-> NoValue,
               error |-> JsError("Failed to create video task: "
                   \o "No task_id received from Minimax API. Response: {}")]
    ELSE [ok |-> FALSE, value |-> NoValue,
          error |->
            IF r.transport = "404"
            THEN JsError("Video generation endpoint not found. The API "
                   \o "endpoint might be incorrect or video generation may "
                   \o "not be available for your account.")
            ELSE IF r.transport = "401"
            THEN JsError("Authentication failed. Please check your "
                   \o "VITE_MINIMAX_API_KEY.")
            ELSE IF r.transport = "403"
            THEN JsError("Access forbidden. Video generation may not be "
                   \o "enabled for your API key.")
            ELSE JsError("Failed to create video task: "
                   \o (IF r.transport # "network"
                       THEN OrElse(r.message, AxiosMessage(r))
                       ELSE AxiosMessage(r)))]

\* MinimaxVideoTest.createVideoTask: the catch block rethrows the error
TestCreateVideoTaskOutcome(r) ==
    IF r.transport = "ok"
    THEN IF TaskIdOf(r) # NoValue
         THEN [ok |-> TRUE, value |-> TaskIdOf(r), error |-> NoError]
         ELSE [ok |-> FALSE, value |-> NoValue,
               error |-> JsError("No task_id in response: {}")]
    ELSE [ok |-> FALSE, value |-> NoValue,
          error |-> [kind |-> "AxiosError", message |-> AxiosMessage(r)]]

\* a caller calls generateAndDownloadVideo(explanation, ..., onProgress?);
\* generateVideo starts createVideoTask's request
CallGenerateAndDownloadVideo ==
    /\ pc = "idle"
    /\ \E cb \in BOOLEAN : onProgress' = cb
    /\ \E e \in BOOLEAN : dirExists' = e
    /\ entry' = "workflow"
    /\ pc' = "create"
    /\ UNCHANGED <<cancelRequested, exitCode, created, lastProgress, pair,
                   maxWaitTime, now, startTime, taskId, resp, status, thrown,
                   result, retval, outcome, queries, sleeps, progress,
                   downloads, files, attempts, waitFlag, apiKey,
                   outputFilename, script, nProcessing, cause, noUrlOnly,
                   chat, view>>

\* the creation request settles; on success generateVideo calls
\* waitForVideoCompletion(taskId, onProgress) with the default deadline
CreateVideoTask ==
    /\ pc = "create"
    /\ \E r \in CreateResponses :
        LET out == CreateVideoTaskOutcome(r) IN
        /\ created' = r
        /\ IF out.ok
           THEN /\ taskId' = out.value
                /\ maxWaitTime' = DefaultMaxWaitTime
                /\ startTime' = now
                /\ pc' = "loop"
                /\ UNCHANGED <<thrown, outcome, cause>>
           ELSE /\ Throw(out.error, "create")
                /\ UNCHANGED <<taskId, maxWaitTime, startTime>>
    /\ UNCHANGED <<cancelRequested, exitCode, lastProgress, pair, entry,
                   onProgress, now, resp, status, result, retval, queries,
                   sleeps, progress, downloads, files, attempts, waitFlag,
                   apiKey, outputFilename, script, nProcessing, dirExists,
                   noUrlOnly, chat, view>>

\* the test wrapper's createVideoTask is called
CallTestCreateVideoTask ==
    /\ pc = "idle"
    /\ entry' = "test"
    /\ pc' = "test_create"
    /\ UNCHANGED <<cancelRequested, exitCode, created, lastProgress, pair,
                   onProgress, maxWaitTime, now, startTime, taskId, resp,
                   status, thrown, result, retval, outcome, queries, sleeps,
                   progress, downloads, files, attempts, waitFlag, apiKey,
                   outputFilename, script, nProcessing, cause, dirExists,
                   noUrlOnly, chat, view>>

\* the test wrapper's creation request settles
TestCreateVideoTask ==
    /\ pc = "test_create"
    /\ \E r \in CreateResponses :
        LET out == TestCreateVideoTaskOutcome(r) IN
        /\ created' = r
        /\ IF out.ok
           THEN /\ taskId' = out.value
                /\ retval' = out.value
                /\ outcome' = "returned"
                /\ pc' = "done"
                /\ UNCHANGED <<thrown, cause>>
           ELSE /\ Throw(out.error, "create")
                /\ UNCHANGED <<taskId, retval>>
    /\ UNCHANGED <<cancelRequested, exitCode, lastProgress, pair, entry,
                   onProgress, maxWaitTime, now, startTime, resp, status,
                   result, queries, sleeps, progress, downloads, files,
                   attempts, waitFlag, apiKey, outputFilename, script,
                   nProcessing, dirExists, noUrlOnly, chat, view>>

----------------------------------------------------------------------------
(* generateVideo, downloadVideo, generateAndDownloadVideo *)

\* GET on the download URL: a body of some size, or a transport failure
DownloadResponses ==
    {[transport |-> "ok", bytes |-> n] : n \in {0, PayloadBytes}}
    \cup {[transport |-> t, bytes |-> 0] : t \in {"404", "network"}}

\* the file fs.writeFileSync writes: video_<taskId>_<Date.now()>.mp4, or the
\* caller's file name
FileWritten(idArg, name, t, n) ==
    [task |-> idArg, name |-> name, time |-> t, bytes |-> n]

\* ENOENT message of fs.writeFileSync into a missing directory
NoSuchDirectory == "ENOENT: no such file or directory"

EnsureDirSkipped == UNCHANGED dirExists

\* if (!fs.existsSync(dir)) { fs.mkdirSync(dir, { recursive: true }) }
EnsureDir == dirExists' = TRUE

\* generateVideo after waitForVideoCompletion returned: the video_url test,
\* then generateAndDownloadVideo calls downloadVideo(videoUrl, videoUrl, dir),
\* which ensures the directory and starts the download request
GenerateVideoReturn ==
    /\ pc = "generated"
    /\ IF ~Truthy(result.video_url)
       THEN /\ Throw(JsError("Video URL not available"), "nourl")
            /\ UNCHANGED <<downloads, dirExists>>
       ELSE /\ downloads' = downloads + 1
            /\ EnsureDir
            /\ pc' = "download"
            /\ UNCHANGED <<thrown, outcome, cause>>
    /\ UNCHANGED <<cancelRequested, exitCode, created, lastProgress, pair,
                   entry, onProgress, maxWaitTime, now, startTime, taskId,
                   resp, status, result, retval, queries, sleeps, progress,
                   files, attempts, waitFlag, apiKey, outputFilename, script,
                   nProcessing, noUrlOnly, chat, view>>

\* the service's downloadVideo: the download request settles
DownloadVideo ==
    /\ pc = "download"
    /\ \E r \in DownloadResponses :
        IF r.transport = "ok" /\ dirExists
        THEN /\ files' = files \cup
                    {FileWritten(result.video_url, NoValue, now, r.bytes)}
             /\ retval' = "filepath"
             /\ outcome' = "returned"
             /\ pc' = "done"
             /\ UNCHANGED <<thrown, cause>>
        ELSE /\ Throw(JsError("Failed to download video: "
                        \o (IF r.transport = "ok" THEN NoSuchDirectory
                            ELSE AxiosMessage(r))), "download")
             /\ UNCHANGED <<files, retval>>
    /\ UNCHANGED <<cancelRequested, exitCode, created, lastProgress, pair,
                   entry, onProgress, maxWaitTime, now, startTime, taskId,
                   resp, status, result, queries, sleeps, progress, downloads,
                   attempts, waitFlag, apiKey, outputFilename, script,
                   nProcessing, dirExists, noUrlOnly, chat, view>>

----------------------------------------------------------------------------
(* download-video.js *)

CliPollInterval == 15000

\* getVideoStatus returned null
NullStatus == [task_id |-> NoValue, status |-> "null", file_id |-> NoValue,
               video_url |-> NoValue, error |-> NoValue]

\* the object getVideoStatus returns: { status, video_url, file_id, task_id }
StatusObject(id, r, f) ==
    [task_id |-> id, status |-> r.status, file_id |-> r.file_id,
     video_url |-> f.download_url, error |-> NoValue]

\* data.base_resp?.status_code === 0, and then if (fileId)
HasFile(r) == r.transport = "ok" /\ r.code = "0" /\ Truthy(r.file_id)

MaxAttemptsSwapped == IF waitFlag THEN MaxAttemptsOnce ELSE MaxAttemptsWait

\* waitForCompletion ? 40 : 1
MaxAttempts == IF waitFlag THEN MaxAttemptsWait ELSE MaxAttemptsOnce

\* downloadVideoByTaskId returns null
ReturnNull ==
    /\ pc' = "done"
    /\ outcome' = "returned"
    /\ retval' = "null"

\* node download-video.js <task_id> [--wait] [--output <filename>]
CallDownloadVideoByTaskId ==
    /\ pc = "idle"
    /\ \E w \in BOOLEAN, k \in BOOLEAN, o \in {NoValue, "my-video.mp4"} :
        /\ waitFlag' = w
        /\ apiKey' = k
        /\ outputFilename' = o
    /\ entry' = "cli"
    /\ EnsureDir
    /\ taskId' = "task1"
    /\ attempts' = 0
    /\ pc' = "cli_loop"
    /\ UNCHANGED <<cancelRequested, exitCode, created, lastProgress, pair,
                   onProgress, maxWaitTime, now, startTime, resp, status,
                   thrown, result, retval, outcome, queries, sleeps, progress,
                   downloads, files, script, nProcessing, cause, noUrlOnly,
                   chat, view>>

CliKeyNeverMissing == FALSE

\* getVideoStatus: if (!apiKey)
CliKeyMissing == ~apiKey

\* while (attempts < maxAttempts) { attempts++; getVideoStatus(taskId) ...
CliLoopTest ==
    /\ pc = "cli_loop"
    /\ IF attempts < MaxAttempts
       THEN /\ attempts' = attempts + 1
            /\ IF CliKeyMissing
               THEN /\ Throw(JsError("API key not found"), "credential")
                    /\ UNCHANGED <<queries, retval>>
               ELSE /\ queries' = queries + 1
                    /\ pc' = "cli_query"
                    /\ UNCHANGED <<thrown, outcome, cause, retval>>
       ELSE /\ ReturnNull
            /\ cause' = "after_loop"
            /\ UNCHANGED <<attempts, queries, thrown>>
    /\ UNCHANGED <<cancelRequested, exitCode, created, lastProgress, pair,
                   entry, onProgress, maxWaitTime, now, startTime, taskId,
                   resp, status, result, sleeps, progress, downloads, files,
                   waitFlag, apiKey, outputFilename, script, nProcessing,
                   dirExists, noUrlOnly, chat, view>>

\* getVideoStatus: the status query settles
CliStatusResponse ==
    /\ pc = "cli_query"
    /\ \E r \in StatusResponses :
        /\ resp' = r
        /\ IF HasFile(r)
           THEN /\ pc' = "cli_lookup"
                /\ UNCHANGED status
           ELSE /\ status' = NullStatus
                /\ pc' = "cli_respond"
    /\ UNCHANGED <<cancelRequested, exitCode, created, lastProgress, pair,
                   entry, onProgress, maxWaitTime, now, startTime, taskId,
                   thrown, result, retval, outcome, queries, sleeps, progress,
                   downloads, files, attempts, waitFlag, apiKey,
                   outputFilename, script, nProcessing, cause, dirExists,
                   noUrlOnly, chat, view>>

\* getVideoStatus: the file lookup settles
CliFileResponse ==
    /\ pc = "cli_lookup"
    /\ \E f \in FileResponses :
        status' = IF f.transport = "ok" THEN StatusObject(taskId, resp, f)
                  ELSE NullStatus
    /\ pc' = "cli_respond"
    /\ UNCHANGED <<cancelRequested, exitCode, created, lastProgress, pair,
                   entry, onProgress, maxWaitTime, now, startTime, taskId,
                   resp, thrown, result, retval, outcome, queries, sleeps,
                   progress, downloads, files, attempts, waitFlag, apiKey,
                   outputFilename, script, nProcessing, cause, dirExists,
                   noUrlOnly, chat, view>>

\* status is not null and status.video_url is truthy
CliReady(s) == s # NullStatus /\ Truthy(s.video_url)

\* downloadVideoByTaskId: the loop body after getVideoStatus returned
CliEvaluate ==
    /\ pc = "cli_respond"
    /\ IF CliReady(status)
       THEN /\ downloads' = downloads + 1
            /\ pc' = "cli_download"
            /\ UNCHANGED <<outcome, retval>>
       ELSE IF waitFlag /\ attempts < MaxAttempts
       THEN /\ pc' = "cli_sleep"
            /\ UNCHANGED <<downloads, outcome, retval>>
       ELSE /\ ReturnNull
            /\ UNCHANGED downloads
    /\ UNCHANGED <<cancelRequested, exitCode, created, lastProgress, pair,
                   entry, onProgress, maxWaitTime, now, startTime, taskId,
                   resp, status, thrown, result, queries, sleeps, progress,
                   files, attempts, waitFlag, apiKey, outputFilename, script,
                   nProcessing, cause, dirExists, noUrlOnly, chat, view>>

\* setTimeout(resolve, 15000) fires
CliSleep ==
    /\ pc = "cli_sleep"
    /\ now' = now + CliPollInterval
    /\ sleeps' = sleeps + 1
    /\ resp' = NoResp
    /\ status' = NoTask
    /\ pc' = "cli_loop"
    /\ UNCHANGED <<cancelRequested, exitCode, created, lastProgress, pair,
                   entry, onProgress, maxWaitTime, startTime, taskId, thrown,
                   result, retval, outcome, queries, progress, downloads,
                   files, attempts, waitFlag, apiKey, outputFilename, script,
                   nProcessing, cause, dirExists, noUrlOnly, chat, view>>

\* the command's downloadVideo: the download request settles
CliDownloadVideo ==
    /\ pc = "cli_download"
    /\ \E r \in DownloadResponses :
        IF r.transport = "ok" /\ dirExists
        THEN /\ files' = files \cup
                    {FileWritten(taskId, outputFilename, now, r.bytes)}
             /\ retval' = "filepath"
             /\ outcome' = "returned"
             /\ pc' = "done"
             /\ UNCHANGED <<thrown, cause>>
        ELSE /\ Throw(IF r.transport = "ok" THEN JsError(NoSuchDirectory)
                      ELSE [kind |-> "AxiosError",
                            message |-> AxiosMessage(r)], "download")
             /\ UNCHANGED <<files, retval>>
    /\ UNCHANGED <<cancelRequested, exitCode, created, lastProgress, pair,
                   entry, onProgress, maxWaitTime, now, startTime, taskId,
                   resp, status, result, queries, sleeps, progress, downloads,
                   attempts, waitFlag, apiKey, outputFilename, script,
                   nProcessing, dirExists, noUrlOnly, chat, view>>

\* node download-video.js without a task id: usage, process.exit(1)
CliUsage ==
    /\ pc = "idle"
    /\ entry' = "cli"
    /\ EnsureDir
    /\ pc' = "exited"
    /\ exitCode' = 1
    /\ UNCHANGED <<onProgress, maxWaitTime, now, startTime, taskId, resp,
                   status, thrown, result, retval, outcome, queries, sleeps,
                   progress, downloads, files, attempts, waitFlag, apiKey,
                   outputFilename, script, nProcessing, cause, created,
                   lastProgress, cancelRequested, pair, noUrlOnly, chat,
                   view>>

\* the .then / .catch after downloadVideoByTaskId: exit 0 for a file path,
\* exit 1 for null and for a rejection
CliExit ==
    /\ entry = "cli"
    /\ pc = "done"
    /\ exitCode' = IF outcome = "returned" /\ retval # "null" THEN 0 ELSE 1
    /\ pc' = "exited"
    /\ UNCHANGED <<entry, onProgress, maxWaitTime, now, startTime, taskId,
                   resp, status, thrown, result, retval, outcome, queries,
                   sleeps, progress, downloads, files, attempts, waitFlag,
                   apiKey, outputFilename, script, nProcessing, cause,
                   created, lastProgress, cancelRequested, pair, dirExists,
                   noUrlOnly, chat, view>>

----------------------------------------------------------------------------
(* generate-video.js *)

\* node generate-video.js [prompt]: the credential and prompt checks exit 1,
\* otherwise generateVideo posts the creation request
CallGenerateVideoCli ==
    /\ pc = "idle"
    /\ entry' = "gen"
    /\ \E k \in BOOLEAN, prompt \in BOOLEAN :
        /\ apiKey' = k
        /\ IF ~k \/ ~prompt
           THEN pc' = "exited" /\ exitCode' = 1
           ELSE pc' = "gen_create" /\ UNCHANGED exitCode
    /\ UNCHANGED <<onProgress, maxWaitTime, now, startTime, taskId, resp,
                   status, thrown, result, retval, outcome, queries, sleeps,
                   progress, downloads, files, attempts, waitFlag,
                   outputFilename, script, nProcessing, cause, created,
                   lastProgress, cancelRequested, pair, dirExists, noUrlOnly,
                   chat, view>>

\* generateVideo: the creation request settles; the catch block exits 1,
\* both branches of the try block let the process end on its own (code 0)
GenerateVideoCli ==
    /\ pc = "gen_create"
    /\ \E r \in CreateResponses :
        IF r.transport = "ok"
        THEN /\ taskId' = IF Truthy(r.task_id) THEN r.task_id ELSE taskId
             /\ exitCode' = 0
        ELSE /\ exitCode' = 1
             /\ UNCHANGED taskId
    /\ pc' = "exited"
    /\ UNCHANGED <<entry, onProgress, maxWaitTime, now, startTime, resp,
                   status, thrown, result, retval, outcome, queries, sleeps,
                   progress, downloads, files, attempts, waitFlag, apiKey,
                   outputFilename, script, nProcessing, cause, created,
                   lastProgress, cancelRequested, pair, dirExists, noUrlOnly,
                   chat, view>>

----------------------------------------------------------------------------
(* MinimaxVideoService constructor *)

\* new MinimaxVideoService() without VITE_MINIMAX_API_KEY
ConstructWithoutKey ==
    /\ pc = "idle"
    /\ entry' = "service"
    /\ apiKey' = FALSE
    /\ Throw(JsError("VITE_MINIMAX_API_KEY is not set"), "credential")
    /\ UNCHANGED <<onProgress, maxWaitTime, now, startTime, taskId, resp,
                   status, result, retval, queries, sleeps, progress,
                   downloads, files, attempts, waitFlag, outputFilename,
                   script, nProcessing, created, lastProgress,
                   cancelRequested, exitCode, pair, dirExists, noUrlOnly,
                   chat, view>>

----------------------------------------------------------------------------
(* Two runs of waitForVideoCompletion side by side: the same task, deadline
   and provider answers, different onProgress arguments.  A run is a record;
   the Run operators are the loop of waitForVideoCompletion on that record. *)

\* onProgress arguments: none, a callback that does nothing, a logging one
Callbacks == {"none", "noop", "log"}

\* the call: startTime = Date.now()
RunStart(cb, m) ==
    [cb |-> cb, calls |-> 0, logged |-> 0, pc |-> "loop", maxWaitTime |-> m,
     now |-> 0, startTime |-> 0, resp |-> NoResp, status |-> NoTask,
     thrown |-> NoError, result |-> NoTask, outcome |-> "none",
     queries |-> 0, sleeps |-> 0]

\* the while condition; a true condition starts checkTaskStatus's request
RunLoopTest(u) ==
    IF u.now - u.startTime < u.maxWaitTime
    THEN [u EXCEPT !.queries = @ + 1, !.pc = "query"]
    ELSE [u EXCEPT !.pc = "done", !.outcome = "thrown",
                   !.thrown = TimeoutError]

\* checkTaskStatus: the status query settles
RunStatusResponse(u, r, d) ==
    LET v == [u EXCEPT !.now = @ + d, !.resp = r] IN
    IF r.transport # "ok"
    THEN [v EXCEPT !.pc = "respond",
                   !.status = CatchRecord("task1",
                                          TransportMessage(r.transport))]
    ELSE IF BadStatusCode(r)
    THEN [v EXCEPT !.pc = "respond",
                   !.status = CatchRecord("task1",
                                OrElse(r.status_msg, "Status check failed"))]
    ELSE IF Truthy(r.file_id)
    THEN [v EXCEPT !.pc = "lookup"]
    ELSE [v EXCEPT !.pc = "respond",
                   !.status = TaskRecord("task1", r, NoValue)]

\* checkTaskStatus: the file lookup settles
RunFileResponse(u, f, d) ==
    [u EXCEPT !.now = @ + d, !.pc = "respond",
              !.status = TaskRecord("task1", u.resp, VideoUrlOf(f))]

\* if (onProgress) onProgress(status)
RunProgress(u) ==
    [u EXCEPT !.calls = IF u.cb # "none" THEN @ + 1 ELSE @,
              !.logged = IF u.cb = "log" THEN @ + 1 ELSE @]

\* the two terminal tests and the start of the sleep
RunTerminal(u) ==
    IF IsCompleted(u.status)
    THEN [u EXCEPT !.pc = "done", !.outcome = "returned",
                   !.result = u.status]
    ELSE IF IsFailed(u.status)
    THEN [u EXCEPT !.pc = "done", !.outcome = "thrown",
                   !.thrown = FailureError(u.status)]
    ELSE [u EXCEPT !.pc = "sleep"]

RunEvaluateNested(u) ==
    IF u.cb # "none" THEN RunTerminal(RunProgress(u))
    ELSE [u EXCEPT !.pc = "sleep"]

\* the loop body after the await
RunEvaluate(u) == RunTerminal(RunProgress(u))

\* setTimeout(resolve, pollInterval) fires
RunSleep(u) ==
    [u EXCEPT !.now = @ + PollInterval, !.sleeps = @ + 1, !.resp = NoResp,
              !.status = NoTask, !.pc = "loop"]

\* some run of the pair is at position p
PairAt(p) == pair # NoPair /\ \E i \in 1..2 : pair[i].pc = p

\* two callers call waitForVideoCompletion('task1', cb, m)
PairCall ==
    /\ pair = NoPair
    /\ \E ca \in Callbacks, cb \in Callbacks, m \in MaxWaitInputs :
        pair' = <<RunStart(ca, m), RunStart(cb, m)>>
    /\ UNCHANGED <<entry, pc, onProgress, maxWaitTime, now, startTime, taskId,
                   resp, status, thrown, result, retval, outcome, queries,
                   sleeps, progress, downloads, files, attempts, waitFlag,
                   apiKey, outputFilename, script, nProcessing, cause,
                   created, lastProgress, cancelRequested, exitCode,
                   dirExists, noUrlOnly, chat, view>>

\* the runs at the loop test take it
PairLoopTest ==
    /\ PairAt("loop")
    /\ pair' = [i \in 1..2 |-> IF pair[i].pc = "loop"
                               THEN RunLoopTest(pair[i]) ELSE pair[i]]
    /\ UNCHANGED <<entry, pc, onProgress, maxWaitTime, now, startTime, taskId,
                   resp, status, thrown, result, retval, outcome, queries,
                   sleeps, progress, downloads, files, attempts, waitFlag,
                   apiKey, outputFilename, script, nProcessing, cause,
                   created, lastProgress, cancelRequested, exitCode,
                   dirExists, noUrlOnly, chat, view>>

\* the runs waiting for the status query receive the same answer
PairStatusResponse ==
    /\ PairAt("query")
    /\ \E r \in StatusResponses, d \in Durations :
        /\ r.transport = "timeout" => d = RequestTimeout
        /\ pair' = [i \in 1..2 |-> IF pair[i].pc = "query"
                                   THEN RunStatusResponse(pair[i], r, d)
                                   ELSE pair[i]]
    /\ UNCHANGED <<entry, pc, onProgress, maxWaitTime, now, startTime, taskId,
                   resp, status, thrown, result, retval, outcome, queries,
                   sleeps, progress, downloads, files, attempts, waitFlag,
                   apiKey, outputFilename, script, nProcessing, cause,
                   created, lastProgress, cancelRequested, exitCode,
                   dirExists, noUrlOnly, chat, view>>

\* the runs waiting for the file lookup receive the same answer
PairFileResponse ==
    /\ PairAt("lookup")
    /\ \E f \in FileResponses, d \in Durations :
        pair' = [i \in 1..2 |-> IF pair[i].pc = "lookup"
                                THEN RunFileResponse(pair[i], f, d)
                                ELSE pair[i]]
    /\ UNCHANGED <<entry, pc, onProgress, maxWaitTime, now, startTime, taskId,
                   resp, status, thrown, result, retval, outcome, queries,
                   sleeps, progress, downloads, files, attempts, waitFlag,
                   apiKey, outputFilename, script, nProcessing, cause,
                   created, lastProgress, cancelRequested, exitCode,
                   dirExists, noUrlOnly, chat, view>>

\* the runs holding a record go through the loop body
PairEvaluate ==
    /\ PairAt("respond")
    /\ pair' = [i \in 1..2 |-> IF pair[i].pc = "respond"
                               THEN RunEvaluate(pair[i]) ELSE pair[i]]
    /\ UNCHANGED <<entry, pc, onProgress, maxWaitTime, now, startTime, taskId,
                   resp, status, thrown, result, retval, outcome, queries,
                   sleeps, progress, downloads, files, attempts, waitFlag,
                   apiKey, outputFilename, script, nProcessing, cause,
                   created, lastProgress, cancelRequested, exitCode,
                   dirExists, noUrlOnly, chat, view>>

\* the sleeping runs wake up
PairSleep ==
    /\ PairAt("sleep")
    /\ pair' = [i \in 1..2 |-> IF pair[i].pc = "sleep"
                               THEN RunSleep(pair[i]) ELSE pair[i]]
    /\ UNCHANGED <<entry, pc, onProgress, maxWaitTime, now, startTime, taskId,
                   resp, status, thrown, result, retval, outcome, queries,
                   sleeps, progress, downloads, files, attempts, waitFlag,
                   apiKey, outputFilename, script, nProcessing, cause,
                   created, lastProgress, cancelRequested, exitCode,
                   dirExists, noUrlOnly, chat, view>>

PairNext ==
    \/ PairCall
    \/ PairLoopTest
    \/ PairStatusResponse
    \/ PairFileResponse
    \/ PairEvaluate
    \/ PairSleep

PairSpec == Init /\ [][PairNext]_vars

----------------------------------------------------------------------------
(* The chat application: useChatSessions, AppContent, ChatContainer *)

\* sessions one run may create
MaxSessions == 2
\* messages one run may send
MaxSends == 2

\* all variables but chat
notChat ==
    <<entry, pc, onProgress, maxWaitTime, now, startTime, taskId, resp,
      status, thrown, result, retval, outcome, queries, sleeps, progress,
      downloads, files, attempts, waitFlag, apiKey, outputFilename, script,
      nProcessing, cause, created, lastProgress, cancelRequested, exitCode,
      pair, dirExists, noUrlOnly, view>>

\* createSession's newSession
NewSession(id) == [id |-> id, title |-> "New Chat", messages |-> <<>>]

\* addMessage's updater: the message is appended to the session with that
\* id, whose title is generated from its first user message
AddMessage(ss, sessionId, m) ==
    [i \in DOMAIN ss |->
        IF ss[i].id # sessionId THEN ss[i]
        ELSE [ss[i] EXCEPT
                !.messages = Append(@, m),
                !.title = IF @ = "New Chat" /\ m = "user"
                          THEN "generated" ELSE @]]

\* AppContent's onAddMessage prop, as rendered with activeSessionId = a
OnAddMessage(ss, a, m) == IF a # NoSession THEN AddMessage(ss, a, m) ELSE ss

\* deleteSession's updater: prev.filter(s => s.id !== sessionId)
WithoutSession(ss, sessionId) ==
    SelectSeq(ss, LAMBDA x : x.id # sessionId)

SessionIds(ss) == {ss[i].id : i \in DOMAIN ss}

\* getActiveSession() !== null
HasActiveSession(c) == c.activeSessionId \in SessionIds(c.sessions)

\* the two persistence effects, run after the render that follows an update
Persisted(c) ==
    [c EXCEPT !.storedSessions = c.sessions,
              !.storedActive = IF c.activeSessionId # NoSession
                               THEN c.activeSessionId ELSE @]

\* handleNewChat: createSession()
ChatNewChat ==
    /\ chat.nextId <= MaxSessions
    /\ chat' = Persisted([chat EXCEPT
                !.sessions = <<NewSession(chat.nextId)>> \o @,
                !.activeSessionId = chat.nextId,
                !.nextId = @ + 1])
    /\ UNCHANGED notChat

\* handleSelectSession(id) for a session shown in the list
ChatSelectSession ==
    /\ \E id \in SessionIds(chat.sessions) :
        /\ id # chat.activeSessionId
        /\ chat' = Persisted([chat EXCEPT !.activeSessionId = id])
    /\ UNCHANGED notChat

\* handleDeleteSession(id) for a session shown in the list
ChatDeleteSession ==
    /\ \E id \in SessionIds(chat.sessions) :
        chat' = Persisted([chat EXCEPT
                   !.sessions = WithoutSession(@, id),
                   !.activeSessionId = IF @ = id THEN NoSession ELSE @])
    /\ UNCHANGED notChat

\* handleSendMessage up to its await (or to its early return in gambling or
\* reasoning mode): the session is created when there is none, and the user
\* message goes through the onAddMessage of the render that defined the
\* handler
ChatSendMessage ==
    /\ chat.pc = "idle"
    /\ chat.sends < MaxSends
    /\ HasActiveSession(chat) \/ chat.nextId <= MaxSessions
    /\ \E mode \in {"regular", "gambling", "reasoning"} :
        LET creates == ~HasActiveSession(chat)
            c1 == IF creates
                  THEN [chat EXCEPT
                          !.sessions = <<NewSession(chat.nextId)>> \o @,
                          !.activeSessionId = chat.nextId,
                          !.nextId = @ + 1]
                  ELSE chat
            c2 == [c1 EXCEPT
                     !.sessions =
                         OnAddMessage(@, chat.activeSessionId, "user"),
                     !.closureActive = chat.activeSessionId,
                     !.fresh = IF creates THEN chat.nextId ELSE NoSession,
                     !.reply = "none",
                     !.sends = @ + 1,
                     !.pc = IF mode = "regular" THEN "awaiting" ELSE "idle"]
        IN chat' = Persisted(c2)
    /\ UNCHANGED notChat

\* chatService.sendMessage settles: the assistant message, the error message,
\* or nothing for an AbortError, through the same onAddMessage
ChatReply ==
    /\ chat.pc = "awaiting"
    /\ \E r \in {"assistant", "error", "abort"} :
        chat' = Persisted([chat EXCEPT
                   !.sessions = IF r = "abort" THEN @
                                ELSE OnAddMessage(@, chat.closureActive, r),
                   !.reply = r,
                   !.pc = "idle"])
    /\ UNCHANGED notChat

\* the page is loaded again: both states are initialised from localStorage
\* and a running handler is gone
ChatReload ==
    /\ chat' = Persisted([chat EXCEPT
                !.sessions = chat.storedSessions,
                !.activeSessionId = chat.storedActive,
                !.pc = "idle",
                !.closureActive = NoSession,
                !.fresh = NoSession,
                !.reply = "none"])
    /\ chat' # chat
    /\ UNCHANGED notChat

ChatNext ==
    \/ ChatNewChat
    \/ ChatSelectSession
    \/ ChatDeleteSession
    \/ ChatSendMessage
    \/ ChatReply
    \/ ChatReload

ChatSpec == Init /\ [][ChatNext]_vars

----------------------------------------------------------------------------
(* The study-video page: App, FileUpload, VideoGenerator *)

\* inputs one run may give
MaxInputs == 3

\* all variables but view
notView ==
    <<entry, pc, onProgress, maxWaitTime, now, startTime, taskId, resp,
      status, thrown, result, retval, outcome, queries, sleeps, progress,
      downloads, files, attempts, waitFlag, apiKey, outputFilename, script,
      nProcessing, cause, created, lastProgress, cancelRequested, exitCode,
      pair, dirExists, noUrlOnly, chat>>

\* FileUpload's disabled prop: App's isGenerating, which VideoGenerator's
\* first effect keeps equal to its own isGenerating
Disabled(v) == v.isGenerating

\* the effect on [inputText, uploadedFile] for a new input: generateVideo()
\* runs up to its first await
StartGeneration(v) ==
    [v EXCEPT !.input = v.nextInput,
              !.nextInput = @ + 1,
              !.isGenerating = TRUE,
              !.error = FALSE,
              !.inflight = @ \cup {[input |-> v.nextInput,
                                    stage |-> "explanation"]}]

\* the finally block of generateVideo for generation g
Finished(v, g) ==
    [v EXCEPT !.isGenerating = FALSE, !.inflight = @ \ {g}]

\* handleTextSubmit -> handleTextInput(text) with a new text
ViewSubmitText ==
    /\ ~Disabled(view)
    /\ view.nextInput <= MaxInputs
    /\ view' = StartGeneration(view)
    /\ UNCHANGED notView

\* a file is dropped on the enabled dropzone, which reads the dropped files
\* asynchronously before it calls onDrop
ViewDrop ==
    /\ ~Disabled(view)
    /\ ~view.pendingDrop
    /\ view.nextInput <= MaxInputs
    /\ view' = [view EXCEPT !.pendingDrop = TRUE]
    /\ UNCHANGED notView

\* onDrop -> onFileUpload(file) -> handleFileUpload(file)
ViewFileUpload ==
    /\ view.pendingDrop
    /\ view.nextInput <= MaxInputs
    /\ view' = [StartGeneration(view) EXCEPT !.pendingDrop = FALSE]
    /\ UNCHANGED notView

\* aiService.generateExplanation settles for one generation in flight
ViewExplanation ==
    /\ \E g \in view.inflight, ok \in BOOLEAN :
        /\ g.stage = "explanation"
        /\ view' =
             IF ok
             THEN [view EXCEPT
                     !.explanation = g.input,
                     !.inflight = (@ \ {g}) \cup
                                  {[input |-> g.input, stage |-> "slides"]}]
             ELSE [Finished(view, g) EXCEPT !.error = TRUE]
    /\ UNCHANGED notView

\* videoGeneratorService.generateSlides settles for one generation in flight
ViewSlides ==
    /\ \E g \in view.inflight, ok \in BOOLEAN :
        /\ g.stage = "slides"
        /\ view' =
             IF ok
             THEN [Finished(view, g) EXCEPT !.slides = g.input]
             ELSE [Finished(view, g) EXCEPT !.error = TRUE]
    /\ UNCHANGED notView

ViewNext ==
    \/ ViewSubmitText
    \/ ViewDrop
    \/ ViewFileUpload
    \/ ViewExplanation
    \/ ViewSlides

ViewSpec == Init /\ [][ViewNext]_vars

Next ==
    \/ CallWaitForVideoCompletion
    \/ CallGenerateAndDownloadVideo
    \/ CreateVideoTask
    \/ CallTestCreateVideoTask
    \/ TestCreateVideoTask
    \/ GenerateVideoReturn
    \/ DownloadVideo
    \/ CallDownloadVideoByTaskId
    \/ CliLoopTest
    \/ CliStatusResponse
    \/ CliFileResponse
    \/ CliEvaluate
    \/ CliSleep
    \/ CliDownloadVideo
    \/ LoopTest
    \/ StatusResponse
    \/ FileResponse
    \/ Evaluate
    \/ Sleep
    \/ RequestCancel
    \/ CliUsage
    \/ CliExit
    \/ CallGenerateVideoCli
    \/ GenerateVideoCli
    \/ ConstructWithoutKey

Spec == Init /\ [][Next]_vars

\* the event loop runs every ready continuation, timers fire, and every
\* request settles within its timeout
FairSpec == Spec /\ WF_vars(Next)

----------------------------------------------------------------------------
(* Properties *)

InPollLoop == entry \in {"wait", "workflow"}

\* kinds of the errors raised for a provider-reported Failed status
ProviderFailureKinds ==
    {FailureError(TaskRecord("task1", r, NoValue)).kind :
        r \in {q \in StatusResponses :
                 q.transport = "ok" /\ ~BadStatusCode(q)
                 /\ NormalizeStatus(q.status) = "failed"}}

\* C1: waitForVideoCompletion resolves only with a record whose status is
\* 'completed' and whose video_url is non-empty; a direct call that returned
\* resolved with the record of its last status check.
C1_ReturnsOnlyCompletedWithUrl ==
    /\ result # NoTask =>
        /\ result.status = "completed"
        /\ Truthy(result.video_url)
        /\ result = status
    /\ (entry = "wait" /\ outcome = "returned") => result # NoTask

C1_Witness ==
    /\ entry = "wait"
    /\ outcome = "returned"
    /\ sleeps >= 1
    /\ result.video_url = "url1"

\* C2: with a provider that only ever answers Processing and a deadline of 5
\* poll intervals, the call ends with the timeout error, not before the
\* deadline has elapsed and after at most 5 status queries; no status query
\* starts once the deadline has elapsed; and the call always terminates.
C2_TimeoutAfterFiveIntervals ==
    /\ []((entry = "wait" /\ maxWaitTime = 5 * PollInterval
           /\ script = "proc" /\ pc = "done") =>
            /\ outcome = "thrown"
            /\ thrown = TimeoutError
            /\ now - startTime >= maxWaitTime
            /\ now - startTime < maxWaitTime + 2 * RequestTimeout
                                  + PollInterval
            /\ queries <= 5)
    /\ [][(entry = "wait" /\ queries' > queries) =>
            now - startTime < maxWaitTime]_vars
    /\ ((entry = "wait" /\ maxWaitTime = 5 * PollInterval) ~> pc = "done")

C2_Witness ==
    /\ entry = "wait"
    /\ maxWaitTime = 5 * PollInterval
    /\ script = "proc"
    /\ pc = "done"
    /\ thrown = TimeoutError
    /\ queries = 5
    /\ nProcessing = 5

\* C3: when the provider answered Processing N times and then Success with a
\* file whose lookup gave a URL, the call returns in the iteration of that
\* answer: exactly N+1 status queries were started and N sleeps were taken.
C3_ExactlyNPlusOneQueries ==
    (InPollLoop /\ script = "succ") =>
        /\ queries = nProcessing + 1
        /\ sleeps = nProcessing
        /\ pc = "respond" \/ result = status

C3_Witness ==
    /\ entry = "wait"
    /\ script = "succ"
    /\ outcome = "returned"
    /\ nProcessing = 2
    /\ queries = 3

\* C4: a record normalized to failed ends the call in the same iteration:
\* the call has thrown, no sleep and no status query followed that check,
\* and the error carries the provider's message when there is one.
C4_FailedEndsImmediately ==
    (InPollLoop /\ IsFailed(status) /\ pc # "respond") =>
        /\ pc = "done"
        /\ outcome = "thrown"
        /\ cause = "failed"
        /\ sleeps = queries - 1
        /\ (resp.transport = "ok" /\ ~BadStatusCode(resp)
            /\ Truthy(resp.error)) => thrown.message = resp.error
        /\ (resp.transport = "ok" /\ BadStatusCode(resp)
            /\ Truthy(resp.status_msg)) => thrown.message = resp.status_msg

C4_Witness ==
    /\ InPollLoop
    /\ pc = "done"
    /\ cause = "failed"
    /\ resp.status = "Failed"
    /\ thrown.message = "provider error"
    /\ sleeps >= 1

\* C5 (as claimed): the error raised when the deadline elapses differs in
\* kind from every error raised for a provider-reported Failed status.
C5_TimeoutDistinctFromFailure ==
    (InPollLoop /\ cause = "timeout") => thrown.kind \notin ProviderFailureKinds

\* C6: createVideoTask (service and test wrapper) either returns a non-empty
\* task id or throws; an empty or absent id is never returned.
C6_TaskIdNonEmptyOrThrows ==
    /\ (entry = "workflow" /\ pc \notin {"idle", "create"}) =>
        \/ Truthy(taskId)
        \/ outcome = "thrown" /\ cause = "create" /\ taskId = NoValue
    /\ (entry = "test" /\ pc = "done") =>
        \/ outcome = "returned" /\ Truthy(retval) /\ retval = taskId
        \/ outcome = "thrown" /\ cause = "create" /\ retval = NoValue

C6_Witness ==
    /\ entry = "workflow"
    /\ taskId = "task2"
    /\ pc = "loop"

\* C7 (as claimed): a Completed record with a file_id but no usable
\* download URL makes the call throw in that iteration.
C7_MissingUrlRaises ==
    (InPollLoop /\ status.status = "completed" /\ Truthy(status.file_id)
     /\ ~Truthy(status.video_url) /\ pc # "respond") =>
        pc = "done" /\ outcome = "thrown"

\* C8 (as claimed): a status response with a non-zero base_resp.status_code
\* aborts the loop in that iteration with an error whose kind differs from
\* the kind raised for a provider-reported Failed status.
C8_BadCodeAbortsDistinctly ==
    (InPollLoop /\ resp.transport = "ok" /\ resp.code \notin {"0", NoValue}
     /\ pc # "respond") =>
        /\ pc = "done"
        /\ outcome = "thrown"
        /\ thrown.kind \notin ProviderFailureKinds

\* C9: in generateAndDownloadVideo a download is started, and a file
\* written, only after the latest status check observed Success and its file
\* lookup gave a non-empty URL, which is the URL downloaded; when creation
\* fails, the task fails or the poll times out, nothing is downloaded.
C9_DownloadOnlyAfterCompleted ==
    /\ (entry = "workflow" /\ (downloads > 0 \/ files # {})) =>
        /\ resp.transport = "ok"
        /\ ~BadStatusCode(resp)
        /\ resp.status # NoValue
        /\ ToLowerCase(resp.status) = "success"
        /\ result.status = "completed"
        /\ result.task_id = taskId
        /\ Truthy(result.video_url)
        /\ downloads = 1
        /\ \A f \in files : f.task = result.video_url
    /\ (entry = "workflow" /\ cause \in {"create", "failed", "timeout"}) =>
        downloads = 0 /\ files = {}

C9_Witness ==
    /\ entry = "workflow"
    /\ outcome = "returned"
    /\ files # {}
    /\ sleeps >= 1

\* C10 (as claimed): downloadVideoByTaskId downloads only when the latest
\* status response reported Success and the file lookup gave a non-empty URL.
C10_CliDownloadOnlyWhenCompleted ==
    (entry = "cli" /\ (downloads > 0 \/ files # {})) =>
        /\ resp.status # NoValue
        /\ ToLowerCase(resp.status) = "success"
        /\ Truthy(status.video_url)


\* C11 (as claimed): once the caller's cancellation signal is set, no status
\* query starts, and the loop test that follows ends the call with an error
\* whose kind is not the timeout's.
C11_CancelStopsPolling ==
    [][(InPollLoop /\ cancelRequested) =>
        /\ queries' = queries
        /\ pc = "loop" =>
            /\ pc' = "done"
            /\ outcome' = "thrown"
            /\ thrown'.kind # TimeoutError.kind]_vars

\* C12 (as claimed): a status check that fails with a transport error
\* (network error or request timeout) does not end the call: the loop goes
\* on to its sleep.
C12_TransportErrorKeepsPolling ==
    (InPollLoop /\ resp.transport \in {"network", "timeout"}
     /\ pc # "respond") =>
        pc = "sleep" /\ outcome = "none"

\* C13: two runs of waitForVideoCompletion that differ only in the
\* onProgress argument (none, no-op, logging) and receive the same provider
\* answers are at the same position with the same status queries started, the
\* same returned record and the same error.
C13_OutcomeIndependentOfCallback ==
    pair # NoPair =>
        /\ pair[1].pc = pair[2].pc
        /\ pair[1].outcome = pair[2].outcome
        /\ pair[1].result = pair[2].result
        /\ pair[1].thrown = pair[2].thrown
        /\ pair[1].queries = pair[2].queries

C13_Witness ==
    /\ pair # NoPair
    /\ pair[1].cb = "noop"
    /\ pair[2].cb = "log"
    /\ pair[1].pc = "done"
    /\ pair[1].outcome = "returned"
    /\ pair[1].queries = 3
    /\ pair[2].logged = 3

\* C14 (as claimed): a file saved without a caller-supplied name is named
\* after the task_id of the task whose video it holds, in the full workflow
\* and in the download command alike.
C14_FileNameEmbedsTaskId ==
    \A f \in files : f.name = NoValue => f.task = taskId

\* C15 (as claimed): downloadVideo reports a saved file only for a
\* successful transfer of a non-empty payload; a zero-byte payload leaves no
\* file and no returned path.
C15_EmptyPayloadIsAnError ==
    /\ \A f \in files : f.bytes > 0
    /\ retval = "filepath" => files # {}
    /\ (entry \in {"workflow", "cli"} /\ cause = "download") =>
        files = {} /\ outcome = "thrown"

\* the error kinds createVideoTask raises when the network call itself fails
NetworkCreateErrorKinds ==
    {CreateVideoTaskOutcome(r).error.kind :
        r \in {c \in CreateResponses : c.transport = "network"}}

\* C16 (as claimed): a command exits with code 0 only when its operation
\* succeeded: download-video.js exactly when a file was saved, and
\* generate-video.js only when a task id was obtained.
C16_ExitCodeZeroOnlyOnSuccess ==
    /\ (entry = "cli" /\ pc = "exited") => (exitCode = 0 <=> files # {})
    /\ (entry = "gen" /\ pc = "exited") => (exitCode = 0 => Truthy(taskId))
    /\ pc = "exited" => exitCode \in {0, 1}

\* C17: without the credential nothing is sent to the provider: no status
\* query, creation request, file lookup or download is ever in flight, the
\* service constructor and download-video.js end with an error, and the
\* commands exit with code 1.
C17_NoCredentialNoRequest ==
    ~apiKey =>
        /\ queries = 0
        /\ downloads = 0
        /\ files = {}
        /\ resp = NoResp
        /\ pc \in {"cli_loop", "done", "exited"}
        /\ pc = "done" => outcome = "thrown" /\ cause = "credential"
        /\ pc = "exited" => exitCode = 1

C17_Witness ==
    /\ ~apiKey
    /\ entry = "cli"
    /\ pc = "exited"
    /\ attempts = 1
    /\ thrown = JsError("API key not found")

\* C18 (as claimed): when the creation response has neither a task-id field
\* nor an error envelope, the error createVideoTask raises is of another kind
\* than the error it raises when the network call fails.
C18_UnexpectedResponseDistinct ==
    (/\ entry = "workflow"
     /\ cause = "create"
     /\ created.transport = "ok"
     /\ created.task_id = NoValue
     /\ created.id = NoValue
     /\ created.code = NoValue) =>
        /\ outcome = "thrown"
        /\ thrown.kind \notin NetworkCreateErrorKinds

\* C19 (as claimed): a creation response whose base_resp.status_code is not 0
\* is a provider-side rejection: createVideoTask raises an error and no task
\* id is taken from that response.
C19_RejectedCreationRaises ==
    (/\ entry = "workflow"
     /\ created.transport = "ok"
     /\ created.code \notin {"0", NoValue}) =>
        /\ outcome = "thrown"
        /\ cause = "create"
        /\ taskId = NoValue

\* C20: every iteration of waitForVideoCompletion makes one status query
\* and, with a callback, one onProgress call with that iteration's record
\* before the terminal tests: while a query is being answered the calls are
\* one behind the queries, everywhere else they are equal, and the record a
\* return or a Failed error is based on is the record last given to
\* onProgress. Without a callback there is no call.
C20_ProgressOncePerQuery ==
    InPollLoop =>
        /\ pc \in {"query", "lookup", "respond", "sleep"} =>
            queries = sleeps + 1
        /\ pc = "loop" => queries = sleeps
        /\ ~onProgress => progress = 0 /\ lastProgress = NoTask
        /\ onProgress =>
            /\ pc \in {"query", "lookup", "respond"} =>
                progress = queries - 1
            /\ pc \notin {"query", "lookup", "respond"} =>
                progress = queries
            /\ cause \in {"completed", "failed"} => lastProgress = status

C20_Witness ==
    /\ entry = "wait"
    /\ onProgress
    /\ cause = "failed"
    /\ outcome = "thrown"
    /\ queries = 3
    /\ progress = 3
    /\ lastProgress = status
    /\ status.status = "failed"

\* C21: the status queries of one poll loop are sequential and never busy:
\* while a status query is in flight it is the only one, every earlier query
\* has completed and was followed by a sleep, and the time since the loop
\* began is at least one full poll interval per earlier query. The same holds
\* for the 15-second loop of download-video.js.
C21_SequentialQueriesWithSleep ==
    /\ (InPollLoop /\ pc = "query") =>
        /\ queries = sleeps + 1
        /\ now - startTime >= (queries - 1) * PollInterval
    /\ (InPollLoop /\ pc = "loop") => queries = sleeps
    /\ (entry = "cli" /\ pc = "cli_query") =>
        /\ queries = sleeps + 1
        /\ now >= (queries - 1) * CliPollInterval

C21_Witness ==
    /\ entry = "workflow"
    /\ pc = "query"
    /\ queries = 4
    /\ sleeps = 3
    /\ now - startTime = 3 * PollInterval + RequestTimeout

\* C22: status normalization is case-insensitive and total: whatever the
\* casing, success gives completed, processing gives processing and failed
\* gives failed; every other status (unknown or missing) gives pending, and a
\* pending record keeps the poll loop going instead of ending it.
C22_NormalizationTotal ==
    (/\ InPollLoop
     /\ resp.transport = "ok"
     /\ ~BadStatusCode(resp)
     /\ pc # "lookup") =>
        /\ resp.status \in {"Success", "SUCCESS"} =>
            status.status = "completed"
        /\ resp.status \in {"Processing", "processing"} =>
            status.status = "processing"
        /\ resp.status \in {"Failed", "FAILED"} => status.status = "failed"
        /\ resp.status \in {"Queueing", NoValue} =>
            /\ status.status = "pending"
            /\ pc \in {"respond", "sleep"}
            /\ outcome = "none"

C22_Witness ==
    /\ entry = "wait"
    /\ resp.status = "Queueing"
    /\ status.status = "pending"
    /\ pc = "sleep"
    /\ queries = 2
    /\ script = "off"

\* C23 (as claimed): the file lookup is issued only for a status response
\* observed as completed; a pending, processing or failed response never
\* triggers a lookup, even when it carries a file_id.
C23_LookupOnlyAfterCompleted ==
    pc \in {"lookup", "cli_lookup"} =>
        NormalizeStatus(resp.status) = "completed"

\* C24 (as claimed): a record of checkTaskStatus with status failed or
\* completed stems from a provider response received in that check that
\* reported that status; a check without a provider response (network error,
\* timeout) produces no failed record.
C24_TerminalRecordFromProvider ==
    (InPollLoop /\ status.status \in {"failed", "completed"}) =>
        /\ resp.transport = "ok"
        /\ NormalizeStatus(resp.status) = status.status

C26_CompletedWithoutUrlPollsOn ==
    InPollLoop =>
        /\ (NoUrlCompleted(status) /\ pc # "respond") =>
            pc = "sleep" /\ outcome = "none"
        /\ (noUrlOnly /\ queries > 0 /\ pc = "done") =>
            /\ outcome = "thrown"
            /\ cause = "timeout"
            /\ thrown = TimeoutError

C26_Witness ==
    /\ entry = "wait"
    /\ noUrlOnly
    /\ queries = 3
    /\ sleeps = 3
    /\ pc = "done"
    /\ thrown = TimeoutError

\* C27: downloadVideoByTaskId makes at most 40 status checks with the wait
\* flag and exactly 1 without it; it always returns from inside the loop,
\* never sleeps after the last attempt, and with the wait flag gives up with
\* null only when all 40 attempts are used, each but the last followed by a
\* sleep.
C27_CliAttemptsBounded ==
    entry = "cli" =>
        /\ attempts <= (IF waitFlag THEN MaxAttemptsWait ELSE MaxAttemptsOnce)
        /\ queries <= attempts
        /\ cause # "after_loop"
        /\ sleeps < (IF waitFlag THEN MaxAttemptsWait ELSE MaxAttemptsOnce)
        /\ pc = "cli_sleep" => waitFlag /\ sleeps = attempts - 1
        /\ (pc = "done" /\ apiKey) =>
            /\ queries = attempts
            /\ sleeps = attempts - 1
            /\ ~waitFlag => queries = MaxAttemptsOnce
            /\ (waitFlag /\ retval = "null") => attempts = MaxAttemptsWait

C27_Witness ==
    /\ entry = "cli"
    /\ waitFlag
    /\ pc = "done"
    /\ retval = "null"
    /\ attempts = MaxAttemptsWait
    /\ sleeps = MaxAttemptsWait - 1
    /\ now = (MaxAttemptsWait - 1) * CliPollInterval

\* C28 (as claimed): when handleSendMessage ran without a current session,
\* the session it created holds the user message followed by the assistant
\* reply (or the error message) once the API call has completed.
C28_FirstMessageInNewSession ==
    (/\ chat.pc = "idle"
     /\ chat.fresh \in SessionIds(chat.sessions)
     /\ chat.reply \in {"assistant", "error"}) =>
        \A i \in DOMAIN chat.sessions :
            chat.sessions[i].id = chat.fresh =>
                chat.sessions[i].messages = <<"user", chat.reply>>

\* C29 (as claimed): activeSessionId is null or the id of a session in
\* sessions, and the persisted active_session_id never names a session that
\* is not among the persisted sessions.
C29_ActiveSessionExists ==
    /\ chat.activeSessionId = NoSession \/ HasActiveSession(chat)
    /\ \/ chat.storedActive = NoSession
       \/ chat.storedActive \in SessionIds(chat.storedSessions)

\* C30 (as claimed): isGenerating stays true while any generation is in
\* flight, and once none is in flight (and no error is shown) the
\* explanation and the slides are those of the most recent input.
C30_LatestInputWins ==
    /\ view.inflight # {} => view.isGenerating
    /\ (view.inflight = {} /\ view.input # NoInput /\ ~view.error) =>
        /\ view.explanation = view.input
        /\ view.slides = view.input

====
